---- MODULE Spec2Model ----
(***************************************************************************)
(* Model of src/index.js: the callable function addInsights, which reads   *)
(* the collections app_users and user_journals, asks the chat-completion   *)
(* API for an insight per user with journals, and writes the insights to   *)
(* users_insights in one batch.                                            *)
(*                                                                         *)
(* JavaScript values are tagged: [t |-> "str", v |-> s] is the string s,   *)
(* [t |-> "num", v |-> d] the number whose decimal rendering is d, and     *)
(* [t |-> "undef", v |-> ""] is undefined.  So the number 1 and the string *)
(* "1" are different values, as they are for ===.                          *)
(***************************************************************************)
EXTENDS Integers, Sequences, FiniteSets, TLC

VARIABLES app_users, user_journals, users_insights, now, live,
          pc, users, journals, idx, insightsList, inflight,
          batch, result, logged,
          calls, replies, store0, commitOrder

vars == <<app_users, user_journals, users_insights, now, live,
          pc, users, journals, idx, insightsList, inflight,
          batch, result, logged,
          calls, replies, store0, commitOrder>>

\* ---------------------------------------------------------------- bounds
MaxUsers == 2
MaxJournals == 2
MaxClock == 1
ConcMaxUsers == 1
ConcMaxJournals == 1

\* the invocations of the callable function: one, or two racing
Invocations == {1, 2}

\* ---------------------------------------------------------------- values
Str(s) == [t |-> "str", v |-> s]
Num(d) == [t |-> "num", v |-> d]
Undef == [t |-> "undef", v |-> ""]

\* uid field values found in stored documents
StoredUids == {Num("1"), Str("1"), Str("u2")}

\* keys of users_insights documents that can arise
DocIds == {"1", "u2"}

\* contents of the reply: choices[0].message.content
Replies == {Str(""), Str("A"), Str("B")}

UserDocs == [uid : StoredUids]

JournalDocs == [uid : StoredUids,
                rememberThisDayBy : {Str("coffee")},
                moodToday : {Str("ok"), Undef},
                challenges : {Str("none")}]

\* documents with string uids only, for the runs with two invocations
ConcUserDocs == [uid : {Str("1"), Str("u2")}]

ConcJournalDocs == {j \in JournalDocs : j.uid.t = "str" /\ j.moodToday.t = "str"}

SeqsUpTo(S, n) == UNION {[1..k -> S] : k \in 0..n}

\* the keys of users_insights that hold a document before the invocation
OldKeys == {"u2"}

\* a document of users_insights left by an earlier invocation
OldDoc(k) == [insights |-> "old", uid |-> k, createdAt |-> 0]

\* ---------------------------------------------------------------- helpers

\* uid.toString() of a stored uid (line 16)
UidToString(x) == Str(x.v)

\* snapshot.docs.map(doc => ({uid: doc.data().uid.toString()}))
MapUsers(docs) == [k \in 1..Len(docs) |-> [uid |-> UidToString(docs[k].uid)]]

\* snapshot.docs.map(doc => ({uid: ..., rememberThisDayBy: ..., ...}))
MapJournals(docs) ==
    [k \in 1..Len(docs) |->
        [uid |-> docs[k].uid,
         rememberThisDayBy |-> docs[k].rememberThisDayBy,
         moodToday |-> docs[k].moodToday,
         challenges |-> docs[k].challenges]]

\* == in place of ===: the number 1 equals the string "1"
LooseEq(a, b) == a.v = b.v

\* journal.uid === userId
StrictEq(a, b) == a.t = b.t /\ a.v = b.v

\* journals.filter((journal) => journal.uid === userId)
FilterJournals(js, userId) == SelectSeq(js, LAMBDA j : StrictEq(j.uid, userId))

\* JSON.stringify of one record: the fields in order, undefined ones dropped
JsonRecord(j) ==
    SelectSeq(<< <<"uid", j.uid>>,
                 <<"rememberThisDayBy", j.rememberThisDayBy>>,
                 <<"moodToday", j.moodToday>>,
                 <<"challenges", j.challenges>> >>,
              LAMBDA p : p[2].t # "undef")

\* JSON.stringify(userJournals)
JsonStringify(js) == [k \in 1..Len(js) |-> JsonRecord(js[k])]

\* a reply that is an empty string counts as a result
TruthyAny(r) == r.t # "undef"

\* if (response)
Truthy(r) == r.t # "undef" /\ r.v # ""

\* batch.set(ref, {...}) for one element of insightsList, at time t
SetOp(ins, t) ==
    [key |-> ins.uid.v,
     doc |-> [insights |-> ins.insight.v, uid |-> ins.uid.v, createdAt |-> t]]

\* the set operations of a batch applied in order; set replaces the document
\* a merge that keeps the createdAt of an existing document
SetDocKeepCreatedAt(store, key, doc) ==
    IF key \in DOMAIN store
    THEN (key :> [doc EXCEPT !.createdAt = store[key].createdAt]) @@ store
    ELSE (key :> doc) @@ store

\* a set (not a merge) replaces the document of that key wholesale
SetDoc(store, key, doc) == (key :> doc) @@ store

RECURSIVE ApplyOps(_, _)
ApplyOps(store, ops) ==
    IF ops = <<>> THEN store
    ELSE ApplyOps(SetDoc(store, ops[1].key, ops[1].doc), Tail(ops))

\* a commit that rewrites the collection from the batch alone
CommitReplaceCollection(store, ops) == ApplyOps([k \in {} |-> 0], ops)

\* a failed commit that has applied the first set operation
CommitFailPartial(store, ops) ==
    IF ops = <<>> THEN store ELSE SetDoc(store, ops[1].key, ops[1].doc)

\* the store after a commit that succeeded
CommitOkStore(store, ops) == ApplyOps(store, ops)

\* the store after a commit that failed: nothing of the batch is applied
CommitFailStore(store, ops) == store

\* functions.https.HttpsError("internal", "Failed to add insights.")
InternalError == [ok |-> FALSE, code |-> "internal", message |-> "Failed to add insights."]
Success == [ok |-> TRUE, code |-> "ok", message |-> "Insights added successfully."]
NoResult == [ok |-> FALSE, code |-> "pending", message |-> ""]

\* ---------------------------------------------------------------- Init
InitRest ==
    /\ users_insights = [k \in OldKeys |-> OldDoc(k)]
    /\ store0 = users_insights
    /\ now = 0
    /\ pc = [i \in Invocations |-> "idle"]
    /\ users = [i \in Invocations |-> <<>>]
    /\ journals = [i \in Invocations |-> <<>>]
    /\ idx = [i \in Invocations |-> 1]
    /\ insightsList = [i \in Invocations |-> <<>>]
    /\ inflight = [i \in Invocations |-> {}]
    /\ batch = [i \in Invocations |-> <<>>]
    /\ result = [i \in Invocations |-> NoResult]
    /\ logged = [i \in Invocations |-> "none"]
    /\ calls = [i \in Invocations |-> <<>>]
    /\ replies = [i \in Invocations |-> <<>>]
    /\ commitOrder = <<>>

\* one invocation of the callable function
Init ==
    /\ app_users \in SeqsUpTo(UserDocs, MaxUsers)
    /\ user_journals \in SeqsUpTo(JournalDocs, MaxJournals)
    /\ InitRest
    /\ live = {1}

\* invocations racing with no coordination
InitConc ==
    /\ app_users \in SeqsUpTo(ConcUserDocs, ConcMaxUsers)
    /\ user_journals \in SeqsUpTo(ConcJournalDocs, ConcMaxJournals)
    /\ InitRest
    /\ live = Invocations

\* ---------------------------------------------------------------- actions
Fail(i, cause) ==
    /\ pc' = [pc EXCEPT ![i] = "failed"]
    /\ result' = [result EXCEPT ![i] = InternalError]
    /\ logged' = [logged EXCEPT ![i] = cause]

\* the trigger calls the handler
Start(i) ==
    /\ i \in live
    /\ pc[i] = "idle"
    /\ pc' = [pc EXCEPT ![i] = "readUsers"]
    /\ UNCHANGED <<app_users, user_journals, users_insights, now, live,
                   users, journals, idx, insightsList, inflight, batch,
                   result, logged, calls, replies, store0, commitOrder>>

\* const users = await getAllUser();
ReadUsersOk(i) ==
    /\ pc[i] = "readUsers"
    /\ users' = [users EXCEPT ![i] = MapUsers(app_users)]
    /\ pc' = [pc EXCEPT ![i] = "readJournals"]
    /\ UNCHANGED <<app_users, user_journals, users_insights, now, live,
                   journals, idx, insightsList, inflight, batch,
                   result, logged, calls, replies, store0, commitOrder>>

\* db.collection("app_users").get() rejects
ReadUsersFail(i) ==
    /\ pc[i] = "readUsers"
    /\ Fail(i, "read app_users")
    /\ UNCHANGED <<app_users, user_journals, users_insights, now, live,
                   users, journals, idx, insightsList, inflight, batch,
                   calls, replies, store0, commitOrder>>

\* const journals = await getUsersJournals();
ReadJournalsOk(i) ==
    /\ pc[i] = "readJournals"
    /\ journals' = [journals EXCEPT ![i] = MapJournals(user_journals)]
    /\ idx' = [idx EXCEPT ![i] = 1]
    /\ pc' = [pc EXCEPT ![i] = "loop"]
    /\ UNCHANGED <<app_users, user_journals, users_insights, now, live,
                   users, insightsList, inflight, batch,
                   result, logged, calls, replies, store0, commitOrder>>

\* the read error swallowed: the loop runs on an empty journal list
ReadJournalsFailSwallow(i) ==
    /\ pc[i] = "readJournals"
    /\ journals' = [journals EXCEPT ![i] = <<>>]
    /\ logged' = [logged EXCEPT ![i] = "read user_journals"]
    /\ pc' = [pc EXCEPT ![i] = "loop"]
    /\ UNCHANGED <<app_users, user_journals, users_insights, now, live,
                   users, idx, insightsList, inflight, batch, result,
                   calls, replies, store0, commitOrder>>

\* db.collection("user_journals").get() rejects
ReadJournalsFail(i) ==
    /\ pc[i] = "readJournals"
    /\ Fail(i, "read user_journals")
    /\ UNCHANGED <<app_users, user_journals, users_insights, now, live,
                   users, journals, idx, insightsList, inflight, batch,
                   calls, replies, store0, commitOrder>>

\* the call not awaited: the next request leaves while one is in flight
AtLoopOrAwaiting(i) == pc[i] \in {"loop", "awaitApi"}

\* the loop body runs for the next user only when the awaited call is over
AtLoop(i) == pc[i] = "loop"

\* the length test dropped
HasJournalsAny(userJournals) == Len(userJournals) >= 0

\* userJournals.length > 0
HasJournals(userJournals) == Len(userJournals) > 0

\* loop body, userJournals empty: next user
LoopSkip(i) ==
    /\ pc[i] = "loop"
    /\ idx[i] <= Len(users[i])
    /\ ~HasJournals(FilterJournals(journals[i], users[i][idx[i]].uid))
    /\ idx' = [idx EXCEPT ![i] = @ + 1]
    /\ UNCHANGED <<app_users, user_journals, users_insights, now, live,
                   pc, users, journals, insightsList, inflight, batch,
                   result, logged, calls, replies, store0, commitOrder>>

\* loop body, userJournals non-empty: the request to the API is sent
IssueRequest(i) ==
    /\ AtLoop(i)
    /\ idx[i] <= Len(users[i])
    /\ LET userId == users[i][idx[i]].uid
           userJournals == FilterJournals(journals[i], userId)
       IN /\ HasJournals(userJournals)
          /\ calls' = [calls EXCEPT ![i] =
                          Append(@, [pos |-> idx[i], uid |-> userId,
                                     data |-> JsonStringify(userJournals)])]
          /\ inflight' = [inflight EXCEPT ![i] = @ \cup {Len(calls[i]) + 1}]
    /\ pc' = [pc EXCEPT ![i] = "awaitApi"]
    /\ UNCHANGED <<app_users, user_journals, users_insights, now, live,
                   users, journals, idx, insightsList, batch,
                   result, logged, replies, store0, commitOrder>>

\* the entry pushed twice
PushInsightTwice(list, r, userId) ==
    IF Truthy(r)
    THEN list \o << [insight |-> r, uid |-> userId], [insight |-> r, uid |-> userId] >>
    ELSE list

\* insightsList after the reply r for the user userId
PushInsight(list, r, userId) ==
    IF Truthy(r) THEN Append(list, [insight |-> r, uid |-> userId]) ELSE list

\* response.ok: the reply's content is returned
ApiReturn(i) ==
    /\ pc[i] = "awaitApi"
    /\ \E r \in Replies :
          /\ insightsList' = [insightsList EXCEPT ![i] =
                                 PushInsight(@, r, users[i][idx[i]].uid)]
          /\ replies' = [replies EXCEPT ![i] = Append(@, r)]
    /\ inflight' = [inflight EXCEPT ![i] = @ \ {Len(calls[i])}]
    /\ idx' = [idx EXCEPT ![i] = @ + 1]
    /\ pc' = [pc EXCEPT ![i] = "loop"]
    /\ UNCHANGED <<app_users, user_journals, users_insights, now, live,
                   users, journals, batch,
                   result, logged, calls, store0, commitOrder>>

\* skip-and-continue: the error is logged and the loop goes on
ApiRaiseSkip(i) ==
    /\ pc[i] = "awaitApi"
    /\ inflight' = [inflight EXCEPT ![i] = @ \ {Len(calls[i])}]
    /\ logged' = [logged EXCEPT ![i] = "api"]
    /\ idx' = [idx EXCEPT ![i] = @ + 1]
    /\ pc' = [pc EXCEPT ![i] = "loop"]
    /\ UNCHANGED <<app_users, user_journals, users_insights, now, live,
                   users, journals, insightsList, batch, result,
                   calls, replies, store0, commitOrder>>

\* !response.ok or fetch rejects: logged, rethrown, caught by the handler
ApiRaise(i) ==
    /\ pc[i] = "awaitApi"
    /\ inflight' = [inflight EXCEPT ![i] = @ \ {Len(calls[i])}]
    /\ Fail(i, "api")
    /\ UNCHANGED <<app_users, user_journals, users_insights, now, live,
                   users, journals, idx, insightsList, batch,
                   calls, replies, store0, commitOrder>>

\* return insightsList; const batch = db.batch();
LoopEnd(i) ==
    /\ pc[i] = "loop"
    /\ idx[i] > Len(users[i])
    /\ batch' = [batch EXCEPT ![i] = <<>>]
    /\ pc' = [pc EXCEPT ![i] = "batch"]
    /\ UNCHANGED <<app_users, user_journals, users_insights, now, live,
                   users, journals, idx, insightsList, inflight,
                   result, logged, calls, replies, store0, commitOrder>>

\* one round of insightsList.forEach: batch.set(ref, {..., createdAt: now})
BatchSet(i) ==
    /\ pc[i] = "batch"
    /\ Len(batch[i]) < Len(insightsList[i])
    /\ \E t \in now..MaxClock :
          /\ now' = t
          /\ batch' = [batch EXCEPT ![i] =
                          Append(@, SetOp(insightsList[i][Len(@) + 1], t))]
    /\ UNCHANGED <<app_users, user_journals, users_insights, live,
                   pc, users, journals, idx, insightsList, inflight,
                   result, logged, calls, replies, store0, commitOrder>>

\* await batch.commit() resolves
CommitOk(i) ==
    /\ pc[i] = "batch"
    /\ Len(batch[i]) = Len(insightsList[i])
    /\ users_insights' = CommitOkStore(users_insights, batch[i])
    /\ commitOrder' = Append(commitOrder, i)
    /\ pc' = [pc EXCEPT ![i] = "done"]
    /\ result' = [result EXCEPT ![i] = Success]
    /\ UNCHANGED <<app_users, user_journals, now, live,
                   users, journals, idx, insightsList, inflight, batch,
                   logged, calls, replies, store0>>

\* await batch.commit() rejects
CommitFail(i) ==
    /\ pc[i] = "batch"
    /\ Len(batch[i]) = Len(insightsList[i])
    /\ users_insights' = CommitFailStore(users_insights, batch[i])
    /\ Fail(i, "commit")
    /\ UNCHANGED <<app_users, user_journals, now, live,
                   users, journals, idx, insightsList, inflight, batch,
                   calls, replies, store0, commitOrder>>

Next ==
    \E i \in Invocations :
        \/ Start(i)
        \/ ReadUsersOk(i)
        \/ ReadUsersFail(i)
        \/ ReadJournalsOk(i)
        \/ ReadJournalsFail(i)
        \/ LoopSkip(i)
        \/ IssueRequest(i)
        \/ ApiReturn(i)
        \/ ApiRaise(i)
        \/ LoopEnd(i)
        \/ BatchSet(i)
        \/ CommitOk(i)
        \/ CommitFail(i)

Spec == Init /\ [][Next]_vars

SpecConc == InitConc /\ [][Next]_vars

TypeOK ==
    /\ pc \in [Invocations -> {"idle", "readUsers", "readJournals", "loop",
                               "awaitApi", "batch", "done", "failed"}]
    /\ now \in 0..MaxClock

\* ================================================================ properties

\* the invocation i has committed its batch
Committed(i) == \E k \in DOMAIN commitOrder : commitOrder[k] = i

\* the document keys a batch sets
BatchKeys(ops) == {ops[k].key : k \in DOMAIN ops}

\* the document the last set operation of a batch gives to a key
LastDoc(ops, key) ==
    ops[CHOOSE k \in DOMAIN ops :
            /\ ops[k].key = key
            /\ \A m \in DOMAIN ops : ops[m].key = key => m <= k].doc

\* some fetched journal entry of invocation i has the uid u
SomeJournalOf(i, u) == \E m \in DOMAIN journals[i] : journals[i][m].uid = u

\* ---------------------------------------------------------------- C1
\* C1: the client is called, an insight entry is produced and a set
\* operation is batched only for a uid that some fetched journal entry
\* carries; a user with no matching journal entry gets no call.
C1_InsightOnlyWithJournal ==
    \A i \in Invocations :
        /\ \A k \in DOMAIN calls[i] :
              /\ calls[i][k].uid = users[i][calls[i][k].pos].uid
              /\ SomeJournalOf(i, calls[i][k].uid)
        /\ \A k \in DOMAIN insightsList[i] :
              SomeJournalOf(i, insightsList[i][k].uid)
        /\ \A k \in DOMAIN batch[i] :
              SomeJournalOf(i, [t |-> "str", v |-> batch[i][k].key])
        /\ \A p \in DOMAIN users[i] :
              ~SomeJournalOf(i, users[i][p].uid)
                 => /\ \A k \in DOMAIN calls[i] : calls[i][k].pos # p
                    /\ \A k \in DOMAIN insightsList[i] :
                          insightsList[i][k].uid # users[i][p].uid

\* two users, one of them without journals: one call, one document written
C1_Witness ==
    /\ pc[1] = "done"
    /\ Len(users[1]) = 2
    /\ \E p \in DOMAIN users[1] : ~SomeJournalOf(1, users[1][p].uid)
    /\ Len(calls[1]) = 1
    /\ Len(batch[1]) = 1

\* ---------------------------------------------------------------- C2
\* C2 as stated: no uid occurs in more than one entry of the insight list,
\* and no document key in more than one set operation of the batch.
C2_NoUidTwice ==
    \A i \in Invocations :
        /\ \A a, b \in DOMAIN insightsList[i] :
              insightsList[i][a].uid = insightsList[i][b].uid => a = b
        /\ \A a, b \in DOMAIN batch[i] :
              batch[i][a].key = batch[i][b].key => a = b

\* C2 amended: the insight list has at most one entry per fetched user
\* record: a uid occurs in the list, and a key in the batch, at most as
\* often as user records carry that uid after the coercion to a string.
C2_AtMostOnePerUserRecord ==
    \A i \in Invocations : \A key \in DocIds :
        LET u == [t |-> "str", v |-> key]
            nUsers == Cardinality({p \in DOMAIN users[i] : users[i][p].uid = u})
        IN /\ Cardinality({a \in DOMAIN insightsList[i] :
                              insightsList[i][a].uid = u}) <= nUsers
           /\ Cardinality({a \in DOMAIN batch[i] : batch[i][a].key = key}) <= nUsers

\* two users with different uids, an insight and a set operation for each
C2_Witness ==
    /\ pc[1] = "done"
    /\ Len(insightsList[1]) = 2
    /\ Len(batch[1]) = 2
    /\ batch[1][1].key # batch[1][2].key

\* ---------------------------------------------------------------- C3
\* C3: once the client has raised for a user, the invocation has failed with
\* the generic internal error, that user is the last one a request was sent
\* for, no user got a second request, no batch was built or committed and
\* users_insights is as it was.
C3_ApiFailureAborts ==
    \A i \in Invocations :
        logged[i] = "api" =>
            /\ pc[i] = "failed"
            /\ result[i].code = "internal"
            /\ result[i].message = "Failed to add insights."
            /\ inflight[i] = {}
            /\ Len(calls[i]) >= 1
            /\ calls[i][Len(calls[i])].pos = idx[i]
            /\ \A a, b \in DOMAIN calls[i] :
                  calls[i][a].pos = calls[i][b].pos => a = b
            /\ \A a \in DOMAIN calls[i] : calls[i][a].pos <= idx[i]
            /\ batch[i] = <<>>
            /\ ~Committed(i)
            /\ (live = {i} => users_insights = store0)

\* the client raises for the second user after an insight for the first
C3_Witness ==
    /\ logged[1] = "api"
    /\ idx[1] = 2
    /\ Len(insightsList[1]) = 1
    /\ users_insights = store0

\* ---------------------------------------------------------------- C4
\* C4: after a failed commit users_insights is what it was before the
\* invocation and the result is the generic internal error; after a commit
\* that succeeded every key of the batch holds the document set for it.
C4_CommitAllOrNothing ==
    \A i \in Invocations :
        /\ logged[i] = "commit" =>
              /\ pc[i] = "failed"
              /\ result[i].code = "internal"
              /\ result[i].message = "Failed to add insights."
              /\ (live = {i} => users_insights = store0)
        /\ (pc[i] = "done" /\ live = {i}) =>
              \A k \in DOMAIN batch[i] :
                  /\ batch[i][k].key \in DOMAIN users_insights
                  /\ users_insights[batch[i][k].key] = LastDoc(batch[i], batch[i][k].key)

\* a batch of two set operations, for a new and for an existing document,
\* whose commit failed
C4_Witness ==
    /\ logged[1] = "commit"
    /\ BatchKeys(batch[1]) = {"1", "u2"}
    /\ DOMAIN users_insights = {"u2"}
    /\ users_insights["u2"].insights = "old"

\* ---------------------------------------------------------------- C5
\* C5: an invocation has at most one request to the API in flight, only
\* while it awaits the reply, and none when the batch is built or committed.
C5_OneRequestInFlight ==
    \A i \in Invocations :
        /\ Cardinality(inflight[i]) <= 1
        /\ inflight[i] # {} => pc[i] = "awaitApi"
        /\ pc[i] = "awaitApi" => inflight[i] = {Len(calls[i])}
        /\ pc[i] \in {"batch", "done"} =>
              /\ inflight[i] = {}
              /\ Len(replies[i]) = Len(calls[i])

\* the second request is in flight after the first one was answered
C5_Witness ==
    /\ pc[1] = "awaitApi"
    /\ Len(calls[1]) = 2
    /\ Len(replies[1]) = 1
    /\ inflight[1] = {2}

\* ---------------------------------------------------------------- C6
\* C6: on success the keys written are exactly the uids of the users with a
\* matching journal entry and a non-empty reply; every document has the
\* fields insights (the reply as received), uid (its key) and a numeric
\* createdAt, and users_insights holds these documents.
C6_SuccessWritesAllInsights ==
    \A i \in Invocations :
        result[i].code = "ok" =>
            LET W == BatchKeys(batch[i])
                Exp == {users[i][p].uid.v : p \in
                          {q \in DOMAIN users[i] :
                              /\ SomeJournalOf(i, users[i][q].uid)
                              /\ \E k \in DOMAIN calls[i] :
                                    /\ calls[i][k].pos = q
                                    /\ replies[i][k].v # ""}}
            IN /\ W = Exp
               /\ Len(batch[i]) = Len(insightsList[i])
               /\ \A k \in DOMAIN batch[i] :
                     /\ DOMAIN batch[i][k].doc = {"insights", "uid", "createdAt"}
                     /\ batch[i][k].doc.uid = batch[i][k].key
                     /\ batch[i][k].doc.createdAt \in Nat
                     /\ batch[i][k].doc.insights = insightsList[i][k].insight.v
                     /\ \E c \in DOMAIN calls[i] :
                           /\ calls[i][c].uid.v = batch[i][k].key
                           /\ replies[i][c].v = batch[i][k].doc.insights
                           /\ replies[i][c].v # ""
               /\ live = {i} =>
                     /\ DOMAIN users_insights = DOMAIN store0 \cup W
                     /\ \A key \in W : users_insights[key] = LastDoc(batch[i], key)

\* success with two calls, one of them answered by an empty reply
C6_Witness ==
    /\ result[1].code = "ok"
    /\ Len(calls[1]) = 2
    /\ \E k \in DOMAIN replies[1] : replies[1][k].v = ""
    /\ Len(batch[1]) = 1

\* ---------------------------------------------------------------- C7
\* C7: after a failed read of app_users or of user_journals the invocation
\* has failed with the generic internal error, no request was sent, no
\* batch was built or committed and users_insights is as it was.
C7_ReadFailureAborts ==
    \A i \in Invocations :
        logged[i] \in {"read app_users", "read user_journals"} =>
            /\ pc[i] = "failed"
            /\ result[i].code = "internal"
            /\ result[i].message = "Failed to add insights."
            /\ calls[i] = <<>>
            /\ inflight[i] = {}
            /\ insightsList[i] = <<>>
            /\ batch[i] = <<>>
            /\ ~Committed(i)
            /\ (live = {i} => users_insights = store0)

\* the users were read, the read of a non-empty journal collection failed
C7_Witness ==
    /\ logged[1] = "read user_journals"
    /\ Len(users[1]) = 2
    /\ Len(user_journals) >= 1
    /\ \E p \in DOMAIN app_users : \E m \in DOMAIN user_journals :
          user_journals[m].uid = app_users[p].uid

\* ---------------------------------------------------------------- C8
\* the entries of user_journals whose uid is the value u, in stored order
EntriesOf(u) == SelectSeq(user_journals, LAMBDA j : j.uid = u)

\* the calls due for the first n users: one per user with entries, for the
\* stored uid as a string, with all the entries of that uid
RECURSIVE DueCalls(_)
DueCalls(n) ==
    IF n = 0 THEN <<>>
    ELSE LET u == [t |-> "str", v |-> app_users[n].uid.v]
             sub == EntriesOf(u)
         IN IF Len(sub) = 0 THEN DueCalls(n - 1)
            ELSE Append(DueCalls(n - 1),
                        [pos |-> n, uid |-> u, data |-> JsonStringify(sub)])

\* C8: the calls made so far are those due for the users gone through, in
\* users order, each with exactly the entries whose uid is the user's uid as
\* a string; after the loop every user with entries got exactly one call.
C8_CallsAreTheFilteredJournals ==
    \A i \in Invocations :
        /\ pc[i] = "loop" => calls[i] = DueCalls(idx[i] - 1)
        /\ pc[i] = "awaitApi" => calls[i] = DueCalls(idx[i])
        /\ (pc[i] \in {"batch", "done"} \/ logged[i] = "commit") =>
              calls[i] = DueCalls(Len(app_users))
        /\ logged[i] = "api" => calls[i] = DueCalls(idx[i])

\* a user stored with the number 1 gets both entries of the string "1",
\* while an entry stored with the number 1 would match nobody
C8_Witness ==
    /\ pc[1] = "batch"
    /\ \E k \in DOMAIN calls[1] :
          /\ Len(calls[1][k].data) = 2
          /\ app_users[calls[1][k].pos].uid = [t |-> "num", v |-> "1"]

\* ---------------------------------------------------------------- C9
\* C9: when both invocations have succeeded, every key set by the one that
\* committed last holds that invocation's whole document, and a key set
\* only by the other holds the other's whole document.
C9_LastWriteWins ==
    (pc[1] = "done" /\ pc[2] = "done") =>
        LET first == commitOrder[1]
            last == commitOrder[2]
        IN /\ \A key \in BatchKeys(batch[last]) :
                 users_insights[key] = LastDoc(batch[last], key)
           /\ \A key \in BatchKeys(batch[first]) \ BatchKeys(batch[last]) :
                 users_insights[key] = LastDoc(batch[first], key)

\* both invocations wrote the same key with different documents, over an
\* older document
C9_Witness ==
    /\ pc[1] = "done"
    /\ pc[2] = "done"
    /\ \E key \in BatchKeys(batch[1]) \cap BatchKeys(batch[2]) :
          /\ key \in DOMAIN store0
          /\ LastDoc(batch[1], key).insights # LastDoc(batch[2], key).insights
          /\ LastDoc(batch[1], key).createdAt # LastDoc(batch[2], key).createdAt

\* ---------------------------------------------------------------- C10
\* C10: no step changes app_users or user_journals or removes a document of
\* users_insights, and a step changes or creates only documents whose key
\* is a uid of the insight list of the invocation that commits in that step.
C10_Frame ==
    [][ /\ app_users' = app_users
        /\ user_journals' = user_journals
        /\ DOMAIN users_insights \subseteq DOMAIN users_insights'
        /\ \A key \in DOMAIN users_insights' :
              (key \notin DOMAIN users_insights
                 \/ users_insights'[key] # users_insights[key])
              => \E i \in Invocations :
                    /\ pc[i] = "batch"
                    /\ pc'[i] = "done"
                    /\ \E k \in DOMAIN insightsList[i] :
                          insightsList[i][k].uid.v = key
      ]_vars

\* a success that created the document of "1" and left the older document
\* of "u2", whose user got an empty reply, as it was
C10_Witness ==
    /\ pc[1] = "done"
    /\ Len(calls[1]) = 2
    /\ BatchKeys(batch[1]) = {"1"}
    /\ "u2" \in DOMAIN store0
    /\ "1" \notin DOMAIN store0
    /\ "1" \in DOMAIN users_insights
    /\ users_insights["u2"] = store0["u2"]
====
